---- MODULE Spec2Model ----
(***************************************************************************)
(* Token lifecycle of the Jotform -> Bitrix24 integration:                 *)
(*   Bitrix24NewService (bitrix24-new.service.js) : acquisition, refresh,  *)
(*       callBitrixAPI, getAccessToken, getTokenStatus                     *)
(*   DatabaseService (database.service.js)        : the Token Store, in    *)
(*       its JSON-file and its SQLite implementation                       *)
(* Every action is the code that runs between two awaits of one async      *)
(* function, the synchronous prefix of the awaited call included.          *)
(***************************************************************************)
EXTENDS Integers, Sequences, FiniteSets, TLC

\* ------------------------------------------------------------------ bounds
MaxTime == 3          \* the clock runs over 1..MaxTime
MaxIssued == 3        \* token pairs the provider issues in one behaviour
MaxExpiresIn == 2     \* expires_in values the provider answers with
MaxRows == 2          \* rows the SQLite table may accumulate
MaxCallers == 2       \* service invocations that may be in flight together
MaxFaults == 3        \* requests the provider fails to serve in one behaviour
MaxArrivals == 2      \* arrivals in a behaviour of overlapping invocations

\* ------------------------------------------------------- program constants
retryAttempts == 3

\* JavaScript null / undefined of a token field; new Date(null) is the epoch.
NULL == -1
Epoch == 0

Backends == {"file", "sqlite"}
Callers == 1..MaxCallers
ExpiresIn == 1..MaxExpiresIn

\* ------------------------------------------------------------------- state
VARIABLES
    backend,      \* which DatabaseService implementation is wired in
    tiebreak,     \* which of several newest rows SQLite's LIMIT 1 answers
    provider,     \* how much of its contract the provider makes use of
    concurrency,  \* how many invocations may be in flight together
    budget,       \* arrivals still to come where invocations may overlap
    store,        \* tokens.json (at most one record) / the tokens table
    nextId,       \* SQLite AUTOINCREMENT sequence
    now,          \* the wall clock (new Date())
    issued,       \* number of token pairs the provider has issued so far
    faults,       \* number of requests the provider has not served so far
    storage,      \* whether writes to the store may fail
    report,       \* what the installation or clear call just made returned
    proc,         \* the in-flight invocation of every caller slot
    oauth         \* the Bitrix24OAuth object of Bitrix24Service and its call

vars == <<backend, tiebreak, provider, concurrency, budget, store, nextId, now, issued,
          faults, storage, report, proc, oauth>>

\* A token record; NoToken stands for null (no record).
NoToken ==
    [id |-> 0, access_token |-> 0, refresh_token |-> NULL,
     expires_in |-> NULL, expires_at |-> NULL,
     method |-> "none", client_endpoint |-> "none", created_at |-> 0]

\* TokenData as built by the acquisition paths.
TokenData(access, refresh, expiresIn, expiresAt, method, createdAt) ==
    [id |-> 0, access_token |-> access, refresh_token |-> refresh,
     expires_in |-> expiresIn, expires_at |-> expiresAt, method |-> method,
     client_endpoint |-> "none", created_at |-> createdAt]

\* expires_in reaches the acquisition paths as a JSON number or, from a
\* form-encoded body (express.urlencoded), as a string of decimal digits.
Encodings == {"number", "string"}

RECURSIVE Digits(_)
Digits(n) == IF n < 10 THEN 1 ELSE 1 + Digits(n \div 10)

RECURSIVE Pow10(_)
Pow10(k) == IF k = 0 THEN 1 ELSE 10 * Pow10(k - 1)

\* JavaScript `seconds + expires_in`: the sum of two numbers, the
\* concatenation of the decimal digits when expires_in is a string.
Plus(seconds, n, encoding) ==
    IF encoding = "number" THEN seconds + n
    ELSE seconds * Pow10(Digits(n)) + n

\* `d = new Date(); d.setSeconds(d.getSeconds() + expires_in)` at clock t,
\* the clock counting seconds: setSeconds replaces the seconds of the minute
\* (a string argument is converted to the number it spells).
expiresAtAfter(t, n, encoding) ==
    (t - (t % 60)) + Plus(t % 60, n, encoding)

\* ------------------------------------------------------- the Token Store
Max(S) == CHOOSE x \in S : \A y \in S : y <= x

\* saveToken: the file implementation overwrites tokens.json with the record
\* under a fresh id (Date.now()); the SQLite one INSERTs a new row.
saveToken(b, st, nid, t, tokenData) ==
    IF b = "file"
    THEN <<[tokenData EXCEPT !.id = t]>>
    ELSE Append(st, [tokenData EXCEPT !.id = nid])

\* The Date conversion getCurrentToken applies to the stored expires_at:
\* the file implementation builds new Date(data.expires_at) unconditionally,
\* the SQLite one keeps null.
readExpiresAt(b, raw) ==
    IF b = "file"
    THEN (IF raw = NULL THEN Epoch ELSE raw)
    ELSE raw

\* getCurrentToken: the results a read of the store may give.  The file holds
\* one record; SQLite answers ORDER BY created_at DESC LIMIT 1, which among
\* rows of equal created_at is the one its query plan meets first: the build
\* fixes whether that is the row of the lowest or of the highest id.
Newest(st) ==
    LET newest == Max({st[i].created_at : i \in 1..Len(st)})
        rows == {i \in 1..Len(st) : st[i].created_at = newest}
    IN  IF tiebreak = "lowest"
        THEN CHOOSE i \in rows : \A j \in rows : st[i].id <= st[j].id
        ELSE CHOOSE i \in rows : \A j \in rows : st[i].id >= st[j].id

getCurrentToken(b, st) ==
    IF Len(st) = 0 THEN {NoToken}
    ELSE LET row == IF b = "file" THEN st[1] ELSE st[Newest(st)]
         IN  {[row EXCEPT !.expires_at = readExpiresAt(b, row.expires_at)]}

\* Variant: the patch leaves the stored expires_at as it was.
MergeKeepExpiry(rec, updates) ==
    [rec EXCEPT !.access_token = updates.access_token,
                !.refresh_token = updates.refresh_token,
                !.expires_in = updates.expires_in]

\* The patch refreshTokenIfNeeded hands to updateToken.
Merge(rec, updates) ==
    [rec EXCEPT !.access_token = updates.access_token,
                !.refresh_token = updates.refresh_token,
                !.expires_in = updates.expires_in,
                !.expires_at = updates.expires_at]

\* updateToken of the SQLite implementation: UPDATE tokens SET ... WHERE id = ?
updateTokenSqlite(st, id, updates) ==
    [i \in 1..Len(st) |-> IF st[i].id = id THEN Merge(st[i], updates) ELSE st[i]]

\* Variant: the patch is saved also where there is no current record.
updateTokenFileUpsert(st, t, cur, updates) ==
    saveToken("file", st, 0, t, Merge(cur, updates))

\* updateToken of the file implementation, after its own getCurrentToken
\* returned cur: merge the patch into cur and saveToken the result; without a
\* current record nothing is written.  The id argument is not used.
updateTokenFile(st, t, cur, updates) ==
    IF cur = NoToken THEN st
    ELSE saveToken("file", st, 0, t, Merge(cur, updates))

\* Variant: the clear removes one record, the oldest.
clearOldestToken(st) == IF st = <<>> THEN st ELSE Tail(st)

\* clearAllTokens: unlink tokens.json / DELETE FROM tokens.
clearAllTokens(st) == <<>>

\* How a write to the store ends: fs.writeFileSync / db.run complete
\* ("written") or fail.  A failed INSERT or UPDATE leaves the table as it was;
\* a failed fs.writeFileSync (flag 'w': the file is truncated when opened,
\* then written) leaves tokens.json as it was when the open fails, and
\* without a parsable record when the write fails after the open.
WriteOutcomes(b, faulty) ==
    IF ~faulty THEN {"written"}
    ELSE IF b = "file" THEN {"written", "unchanged", "truncated"}
    ELSE {"written", "unchanged"}

\* How an unlink / DELETE ends.
DeleteOutcomes(faulty) ==
    IF faulty THEN {"written", "unchanged"} ELSE {"written"}

\* JSON.stringify(data, null, 2) of a record: an opening brace, one member
\* per field, a closing brace.
Fields ==
    <<"id", "access_token", "refresh_token", "expires_in", "expires_at",
      "method", "client_endpoint", "created_at">>

stringify(rec) ==
    <<<<"{", 0>>>> \o [i \in 1..Len(Fields) |-> <<Fields[i], rec[Fields[i]]>>]
                 \o <<<<"}", 0>>>>

\* The value of member f of the text, or of NoToken when it has none.
Member(text, f) ==
    IF \E i \in 1..Len(text) : text[i][1] = f
    THEN text[CHOOSE i \in 1..Len(text) : text[i][1] = f][2]
    ELSE NoToken[f]

Members(text) ==
    [id |-> Member(text, "id"), access_token |-> Member(text, "access_token"),
     refresh_token |-> Member(text, "refresh_token"),
     expires_in |-> Member(text, "expires_in"),
     expires_at |-> Member(text, "expires_at"),
     method |-> Member(text, "method"),
     client_endpoint |-> Member(text, "client_endpoint"),
     created_at |-> Member(text, "created_at")]

\* Variant: a reader that takes the members it finds in a text that breaks
\* off.
readTokenFileLenient(text) ==
    IF text = <<>> THEN <<>> ELSE <<Members(text)>>

\* What getCurrentToken of the file implementation finds in tokens.json:
\* JSON.parse of a text that is not a closed object throws, the catch block
\* returns null.
readTokenFile(text) ==
    IF Len(text) >= 2 /\ text[Len(text)][1] = "}" THEN <<Members(text)>> ELSE <<>>

\* The stores a write that was to leave `target` may leave.  A write of
\* tokens.json that fails after the open leaves a text that breaks off
\* anywhere before its end.
Written(st, target, outcome) ==
    IF outcome = "written" THEN {target}
    ELSE IF outcome = "truncated"
    THEN LET text == stringify(target[1])
         IN  {readTokenFile(SubSeq(text, 1, k)) : k \in 0..(Len(text) - 1)}
    ELSE {st}

\* ------------------------------------------------- classification helpers
\* `token.expires_at ? now > token.expires_at : false`: a Date is truthy,
\* the epoch included; only null is not.
isExpired(token, t) ==
    IF token.expires_at # NULL THEN t > token.expires_at ELSE FALSE

TokenErrors == {"expired_token", "invalid_token", "WRONG_AUTH_TYPE", "unauthorized"}

isTokenError(error) == error \in TokenErrors

\* An error thrown inside callBitrixAPI: one raised by axios for a non-2xx
\* answer carries error.response, a network failure and every `new Error`
\* thrown by the service itself do not.
Thrown(hasResponse, status, what) ==
    [hasResponse |-> hasResponse, status |-> status, what |-> what]

\* Variant: no error is retried.
isRetryableErrorNever(error) == error.hasResponse /\ error.status = 0

isRetryableError(error) ==
    IF ~error.hasResponse THEN TRUE
    ELSE error.status >= 500 \/ error.status = 429

\* Variant: the refresh-and-retry branch is never taken.
canRefreshAndRetryNever(attempt, token) ==
    attempt < retryAttempts /\ token.method = "none"

\* The guard of the refresh-and-retry branch after a token error.
canRefreshAndRetry(attempt, token) ==
    attempt < retryAttempts /\ token.method = "oauth2"

\* Variant: the last attempt is retried like any other.
isTerminalNever(attempt, error) == ~isRetryableError(error)

\* The guard of the terminal throw in the catch block.
isTerminal(attempt, error) ==
    attempt = retryAttempts \/ ~isRetryableError(error)

\* ------------------------------------------------------------ the provider
\* Answers to an authenticated API request.
ApiErrors == {"expired_token", "WRONG_AUTH_TYPE", "INSUFFICIENT_SCOPE"}
ApiStatuses == {401, 429, 500}
ApiResponses ==
    {[kind |-> "result", error |-> "", status |-> 200]}
    \cup {[kind |-> "error", error |-> e, status |-> 200] : e \in ApiErrors}
    \cup {[kind |-> "http", error |-> "", status |-> s] : s \in ApiStatuses}
    \cup {[kind |-> "network", error |-> "", status |-> 0]}

\* The provider serves a request (a result, a grant) or not; of the latter
\* answers it gives MaxFaults in one behaviour.
CanFail == faults < MaxFaults

\* A "plain" provider answers an API request with a result or with
\* expired_token.
ApiAnswers ==
    {r \in ApiResponses :
        /\ r.kind # "result" => CanFail
        /\ provider = "plain" => r.kind = "result" \/ r.error = "expired_token"}

\* The answer as an observer of the wire notes it down: a result, a token
\* error or another application error in a 2xx body, an HTTP 4xx answer, or
\* a transient failure (network error, HTTP 5xx, HTTP 429).
Answer(resp) ==
    IF resp.kind = "result" THEN "result"
    ELSE IF resp.kind = "error"
    THEN (IF resp.error \in {"expired_token", "invalid_token", "WRONG_AUTH_TYPE"}
          THEN "token_error" ELSE "app_error")
    ELSE IF resp.kind = "http" /\ resp.status \in 400..428 \cup 430..499
    THEN "http_4xx"
    ELSE "transient"

\* Answers of the token endpoint to a grant_type=refresh_token exchange.
TokenStatuses == {400, 503}
TokenFailures ==
    {[kind |-> "error", status |-> 200, rotate |-> FALSE, expires_in |-> 0]}
    \cup {[kind |-> "http", status |-> s, rotate |-> FALSE, expires_in |-> 0] :
             s \in TokenStatuses}
    \cup {[kind |-> "network", status |-> 0, rotate |-> FALSE, expires_in |-> 0]}
TokenGrants ==
    {[kind |-> "ok", status |-> 200, rotate |-> r, expires_in |-> e] :
        r \in BOOLEAN, e \in ExpiresIn}

\* A "plain" provider grants the exchange or rejects the refresh token.  A
\* provider that issues no further token pair rejects.
TokenAnswers ==
    {r \in TokenFailures :
        /\ CanFail \/ issued = MaxIssued
        /\ provider = "plain" => r.kind = "error"}
    \cup (IF issued < MaxIssued THEN TokenGrants ELSE {})

\* The provider never grants an exchange that carries no refresh token.
TokenAnswersTo(refresh_token) ==
    IF refresh_token = NULL
    THEN {r \in TokenFailures : provider = "plain" => r.kind = "error"}
    ELSE TokenAnswers

\* The failure as an observer of the wire notes it down.
TokenAnswer(resp) ==
    IF resp.kind = "error" THEN "rejected"
    ELSE IF resp.kind = "network" THEN "network"
    ELSE IF resp.status >= 500 THEN "http_5xx" ELSE "http_4xx"

\* ------------------------------------------------------------- invocations
NoUpdates ==
    [access_token |-> 0, refresh_token |-> NULL, expires_in |-> NULL,
     expires_at |-> NULL]

\* The frame of one invocation: the position (pc), the locals of the async
\* functions (attempt, force, token, rtoken = the token local of
\* refreshTokenIfNeeded, cur = currentToken of updateToken, updates), and
\* what an observer of the invocation records:
\*   requests    the API requests sent, each with the token it carried, the
\*               way the token was attached and the provider's answer
\*   exchanges   the number of refresh exchanges sent to the token endpoint
\*   failed      the answer to the first exchange the provider did not grant
\*   failedAt    the number of API requests sent before that answer
\*   forced      the number of refreshTokenIfNeeded(true) calls
\*   refreshed   the `refreshed` flag the last refreshTokenIfNeeded returned
\*   first, firstAt, classified   the record and the clock of the first
\*               expiry decision, and the decision
\*   wrote       whether the invocation changed the store
\*   rejected    whether the pending db.run of updateToken failed
\*   out, err    the outcome
Idle ==
    [op |-> "none", pc |-> "idle", attempt |-> 0, force |-> FALSE, ret |-> "none",
     token |-> NoToken, rtoken |-> NoToken, cur |-> NoToken, updates |-> NoUpdates,
     requests |-> <<>>, exchanges |-> 0, failed |-> "none", failedAt |-> 0,
     forced |-> 0, refreshed |-> FALSE,
     first |-> NoToken, firstAt |-> 0, classified |-> "none", wrote |-> FALSE,
     rejected |-> FALSE, out |-> "none", err |-> "none"]

\* What the last processInstallation / exchangeCodeForToken / clearAllTokens
\* call returned, and whether the store then held what the call was to leave;
\* the next invocation of the service takes the note down.
\*   via        the path of an acquisition: "oauth2" (ONAPPINSTALL event or
\*              installation data with access_token), "code" (authorization
\*              code), "direct" (AUTH_ID payload), "route" (AUTH_ID payload as
\*              POST / forwards it)
\*   exchanges  the number of requests it sent to the token endpoint
\*   answer     what the token endpoint answered
\*   error      the provider error the returned value carries
\*   logged     the tokens whose value its log entries contain
NoReport ==
    [op |-> "none", via |-> "none", returned |-> "none", persisted |-> FALSE,
     outcome |-> "none", exchanges |-> 0, answer |-> "none", error |-> "none",
     logged |-> {}]

Busy(c) == proc[c].pc # "idle"
InFlight == {c \in Callers : Busy(c)}

\* An invocation starts in the lowest free slot, while fewer than
\* `concurrency` invocations are in flight.  Where invocations may overlap,
\* `budget` arrivals (invocations, acquisitions, clears) remain.
CanStart(c) ==
    /\ ~Busy(c)
    /\ \A d \in Callers : d < c => Busy(d)
    /\ Cardinality(InFlight) < concurrency
    /\ budget > 0

Started == IF concurrency > 1 THEN budget - 1 ELSE budget

\* Acquisitions and the administrative clear arrive between invocations
\* unless invocations may overlap; then they arrive at any moment and count
\* among the arrivals of the behaviour.
CanArrive == IF concurrency > 1 THEN budget > 0 ELSE InFlight = {}

\* Only the SQLite implementation has a tie to break.
Tiebreaks == IF backend = "file" THEN {"lowest"} ELSE {"lowest", "highest"}

\* Bitrix24OAuth after construction with no token configured and nothing in
\* flight.  Of its invocation: the method invoked (op), where it awaits (pc),
\* which block called refreshAccessToken (from), the API requests and
\* refresh exchanges it has posted, the legacy webhook calls, the leads the
\* provider answered with (created), what makeApiCall returned (oauth2) and
\* what the invocation returned (ret).
NoOAuth ==
    [restUrl |-> FALSE, accessToken |-> 0, refreshToken |-> NULL,
     saved |-> <<>>, op |-> "none", pc |-> "idle", from |-> "none",
     requests |-> 0, refreshes |-> 0, legacy |-> 0, created |-> 0,
     oauth2 |-> "none", ret |-> "none"]

TypeOK ==
    /\ backend \in Backends
    /\ tiebreak \in Tiebreaks
    /\ provider \in {"any", "plain"}
    /\ concurrency \in 1..MaxCallers
    /\ now \in 1..MaxTime
    /\ issued \in 0..MaxIssued
    /\ faults \in 0..MaxFaults
    /\ storage \in {"sound", "faulty"}
    /\ report.op \in {"none", "install", "clear"}
    /\ Len(store) <= MaxRows
    /\ backend = "file" => Len(store) <= 1

\* The state after construction: an empty store, nothing in flight.
Start ==
    /\ store = <<>>
    /\ nextId = 1
    /\ now = 1
    /\ issued = 0
    /\ faults = 0
    /\ report = NoReport
    /\ proc = [c \in Callers |-> Idle]
    /\ oauth = NoOAuth

\* One invocation at a time on the JSON-file store (the implementation
\* ./database.service names), against a provider using its whole contract.
Init ==
    /\ backend = "file"
    /\ tiebreak \in Tiebreaks
    /\ provider = "any"
    /\ concurrency = 1
    /\ budget = 1
    /\ storage = "sound"
    /\ Start

\* One invocation at a time on either store, against a plain provider.
InitStore ==
    /\ backend \in Backends
    /\ tiebreak \in Tiebreaks
    /\ provider = "plain"
    /\ concurrency = 1
    /\ budget = 1
    /\ storage = "sound"
    /\ Start

\* One invocation at a time on either store, against a plain provider, where
\* writes to the store may fail: of the MaxFaults requests not served, one
\* is still to come.
InitFault ==
    /\ backend \in Backends
    /\ tiebreak \in Tiebreaks
    /\ provider = "plain"
    /\ concurrency = 1
    /\ budget = 1
    /\ storage = "faulty"
    /\ store = <<>>
    /\ nextId = 1
    /\ now = 1
    /\ issued = 0
    /\ faults = MaxFaults - 1
    /\ report = NoReport
    /\ proc = [c \in Callers |-> Idle]
    /\ oauth = NoOAuth

\* Overlapping invocations on either store, against a plain provider, from
\* the state an ONAPPINSTALL event (expires_in 1, at clock 1), one request
\* the provider did not serve and one tick of the clock leave: an installed
\* OAuth2 credential about to expire.
InitConc ==
    /\ backend \in Backends
    /\ tiebreak \in Tiebreaks
    /\ provider = "plain"
    /\ concurrency = MaxCallers
    /\ budget = MaxArrivals
    /\ store = saveToken(backend, <<>>, 1, 1,
                         [TokenData(1, 1, 1, 2, "oauth2", 1)
                             EXCEPT !.client_endpoint = "rest"])
    /\ nextId = IF backend = "sqlite" THEN 2 ELSE 1
    /\ now = 2
    /\ issued = 1
    /\ faults = 1
    /\ storage = "sound"
    /\ report = NoReport
    /\ proc = [c \in Callers |-> Idle]
    /\ oauth = NoOAuth

\* Bitrix24Service after construction: its Bitrix24OAuth holds the token
\* pair of the configuration or of tokens.json (loadSavedTokens), or none,
\* and a legacy REST URL is configured or not.
InitService ==
    /\ backend = "file"
    /\ tiebreak = "lowest"
    /\ provider = "any"
    /\ concurrency = 1
    /\ budget = 1
    /\ storage = "sound"
    /\ store = <<>>
    /\ nextId = 1
    /\ now = 1
    /\ faults = 0
    /\ report = NoReport
    /\ proc = [c \in Callers |-> Idle]
    /\ issued \in {0, 1}
    /\ \E restUrl \in BOOLEAN, refreshToken \in {NULL, issued} :
          /\ issued = 0 => refreshToken = NULL
          /\ oauth = [NoOAuth EXCEPT !.restUrl = restUrl,
                                     !.accessToken = issued,
                                     !.refreshToken = refreshToken]

\* ------------------------------------------------------------ environment
Tick ==
    /\ now < MaxTime
    /\ now' = now + 1
    /\ UNCHANGED <<backend, tiebreak, provider, concurrency, storage, oauth, report, budget, store, nextId, issued, faults, proc>>

\* Installation data carries a refresh token (refresh_token, REFRESH_ID: the
\* next one the provider issues) or none.
RefreshTokens == {issued + 1, NULL}

\* A store whose writes may fail fails MaxFaults requests of the behaviour,
\* those of the provider included.
Faulty == storage = "faulty" /\ CanFail

\* saveToken from an acquisition path, whose caller does not look at the value
\* it resolves to: the file implementation catches the failure and returns
\* false, and the path answers hasToken: true; the SQLite one rejects, and
\* the path throws (exchangeCodeForToken: answers success: false).
\* The tokens whose value the log entries of an acquisition contain.  POST /
\* logs the request body; processDirectInstallationData logs the TokenData
\* with access_token masked; the catch blocks of the processInstallation
\* paths log authData; everything else logs presence (hasAccessToken,
\* hasRefreshToken) and lengths.
logged(via, tokenData, threw) ==
    LET tokens == {"access_token"} \cup
                  (IF tokenData.refresh_token # NULL THEN {"refresh_token"}
                   ELSE {})
    IN  IF via = "route" THEN tokens
        ELSE IF threw /\ via # "code" THEN tokens
        ELSE IF via = "direct" THEN tokens \ {"access_token"}
        ELSE {}

Acquire(via, answer, tokenData) ==
    \E w \in WriteOutcomes(backend, Faulty) :
        /\ store' \in Written(store, saveToken(backend, store, nextId, now, tokenData), w)
        /\ nextId' = IF backend = "sqlite" /\ w = "written" THEN nextId + 1 ELSE nextId
        /\ faults' = IF w = "written" THEN faults ELSE faults + 1
        /\ report' = [op |-> "install", via |-> via,
                      returned |-> IF backend = "sqlite" /\ w # "written"
                                   THEN "error" ELSE "hasToken",
                      persisted |-> w = "written", outcome |-> w,
                      exchanges |-> IF via = "code" THEN 1 ELSE 0,
                      answer |-> answer,
                      error |-> "none",
                      logged |-> logged(via, tokenData,
                                        backend = "sqlite" /\ w # "written")]

CanSave == backend = "sqlite" => Len(store) < MaxRows

\* The REST endpoint of the installation: the provider names one in
\* client_endpoint, https://{domain}/rest/ ("rest") or, a provider using
\* its whole contract, another one it has assigned ("assigned"); POST / and
\* exchangeCodeForToken, when the body names none, build
\* https://{domain}/rest/.
Endpoints(via) ==
    IF via = "route" \/ provider = "plain" THEN {"rest"}
    ELSE {"rest", "assigned"}

\* The three expiring acquisitions build the same record: expires_at from
\* `expires_in || 3600`, method 'oauth2', and saveToken.
AcquireOAuth2(via, answer, refresh_token, expires_in, encoding) ==
    /\ CanArrive /\ CanSave /\ issued < MaxIssued
    /\ \E client_endpoint \in Endpoints(via) :
        LET tokenData == [TokenData(issued + 1, refresh_token, expires_in,
                                    expiresAtAfter(now, expires_in, encoding),
                                    "oauth2", now)
                             EXCEPT !.client_endpoint = client_endpoint]
        IN  Acquire(via, answer, tokenData)
    /\ issued' = issued + 1
    /\ budget' = Started
    /\ UNCHANGED <<backend, tiebreak, provider, concurrency, storage, oauth, now, proc>>

\* processONAPPINSTALLEvent: the provider pushes an OAuth2 grant.
processONAPPINSTALLEvent(refresh_token, expires_in, encoding) ==
    AcquireOAuth2("oauth2", "none", refresh_token, expires_in, encoding)

\* processOAuth2Flow: installation data carrying access_token and no AUTH_ID.
processOAuth2Flow(refresh_token, expires_in, encoding) ==
    AcquireOAuth2("oauth2", "none", refresh_token, expires_in, encoding)

\* Variant: the error member of the body is not looked at.
exchangeGrantedAlways(resp) == resp.kind \in {"ok", "error"}

\* The exchange went through: httpService.post did not throw (2xx) and the
\* body has no error member (`if (tokenData.error) throw`).
exchangeGranted(resp) == resp.kind = "ok"

\* Answers of the token endpoint to a grant_type=authorization_code exchange.
CodeAnswers == {r \in TokenAnswers : r.kind = "ok" => r.rotate}

\* exchangeCodeForToken: one POST to the token endpoint; the JSON body of a
\* grant is saved, any failure is caught and returned as success: false with
\* the error.
exchangeCodeForToken(resp) ==
    IF exchangeGranted(resp)
    THEN AcquireOAuth2("code", resp.kind, issued + 1,
                       IF resp.expires_in \in ExpiresIn THEN resp.expires_in
                       ELSE MaxExpiresIn,
                       "number")
    ELSE /\ CanArrive
         /\ report' = [NoReport EXCEPT !.op = "install", !.via = "code",
                                       !.returned = "error", !.exchanges = 1,
                                       !.answer = resp.kind,
                                       !.error = TokenAnswer(resp)]
         /\ faults' = IF CanFail THEN faults + 1 ELSE faults
         /\ budget' = Started
         /\ UNCHANGED <<backend, tiebreak, provider, concurrency, storage, oauth, store,
                        nextId, now, issued, proc>>

\* processDirectInstallationData: AUTH_ID / REFRESH_ID of the simplified method.
processDirectInstallationData(REFRESH_ID) ==
    /\ CanArrive /\ CanSave /\ issued < MaxIssued
    /\ LET tokenData == TokenData(issued + 1, REFRESH_ID, NULL, NULL,
                                  "simplified_auth", now)
       IN  Acquire("direct", "none", tokenData)
    /\ issued' = issued + 1
    /\ budget' = Started
    /\ UNCHANGED <<backend, tiebreak, provider, concurrency, storage, oauth, now, proc>>

\* POST / with AUTH_ID, REFRESH_ID and DOMAIN: the route rewrites the body
\* as {access_token: AUTH_ID, refresh_token: REFRESH_ID, expires_in:
\* AUTH_EXPIRES || '3600', method: 'simplified_auth', ...} and hands it to
\* processInstallation, which, finding access_token and no AUTH_ID, takes
\* processOAuth2Flow.  AUTH_EXPIRES is a form value.
postInstallDirectAuth(AUTH_EXPIRES) ==
    AcquireOAuth2("route", "none", issued + 1, AUTH_EXPIRES, "string")

\* POST /token/clear: clearAllTokens.  The file implementation returns
\* whether it unlinked tokens.json (false when there is none or when the
\* unlink fails); the SQLite one resolves true or rejects.
ClearTokens ==
    /\ CanArrive
    /\ \E w \in DeleteOutcomes(Faulty) :
        /\ store' \in Written(store, clearAllTokens(store), w)
        /\ faults' = IF w = "written" THEN faults ELSE faults + 1
        /\ report' = [op |-> "clear",
                      returned |-> IF backend = "file"
                                   THEN (IF w = "written" /\ store # <<>>
                                         THEN "true" ELSE "false")
                                   ELSE (IF w = "written" THEN "true" ELSE "error"),
                      persisted |-> w = "written", outcome |-> w]
    /\ budget' = Started
    /\ UNCHANGED <<backend, tiebreak, provider, concurrency, storage, oauth, nextId, now, issued, proc>>

\* --------------------------------------------------- refreshTokenIfNeeded
\* Call refreshTokenIfNeeded(force) from the frame p: its synchronous prefix
\* issues getCurrentToken.
BeginRefresh(p, force, ret) ==
    {[p EXCEPT !.pc = "r1", !.force = force, !.ret = ret, !.rtoken = t,
               !.token = NoToken,
               !.forced = IF force THEN @ + 1 ELSE @] :
        t \in getCurrentToken(backend, store)}

\* Variant: the catch block swallows the error.
CatchSwallow(p, error) ==
    [p EXCEPT !.pc = "done", !.out = "success", !.token = NoToken]

\* The catch block of callBitrixAPI.
Catch(p, error) ==
    IF isTerminal(p.attempt, error)
    THEN [p EXCEPT !.pc = "done", !.out = "error", !.err = error.what,
                   !.token = NoToken]
    ELSE [p EXCEPT !.pc = "sleep", !.token = NoToken]

\* refreshTokenIfNeeded throws: the error reaches the catch block of the
\* caller (callBitrixAPI retries or gives up, getAccessToken returns null).
RefreshThrow(p, error) ==
    LET q == [p EXCEPT !.rtoken = NoToken]
    IN  IF q.op = "call" THEN Catch(q, error)
        ELSE IF q.op = "getAccessToken"
        THEN [q EXCEPT !.pc = "done", !.out = "null", !.err = error.what]
        ELSE [q EXCEPT !.pc = "done", !.out = "error", !.err = error.what]

\* refreshTokenIfNeeded returns ({refreshed: ...}): the caller resumes and
\* issues its next getCurrentToken against the store st.
RefreshReturn(p, st, refreshed) ==
    IF p.op = "refresh"
    THEN {[p EXCEPT !.pc = "done", !.refreshed = refreshed, !.rtoken = NoToken,
                    !.out = IF refreshed THEN "refreshed" ELSE "still_valid"]}
    ELSE {[p EXCEPT !.pc = IF p.ret = "pre" THEN "a3"
                           ELSE IF p.ret = "forced" THEN "a6" ELSE "g3",
                    !.refreshed = refreshed, !.rtoken = NoToken,
                    !.token = t] :
             t \in getCurrentToken(backend, st)}

\* A direct refreshTokenIfNeeded(force) invocation.
RefreshStart(c, force) ==
    /\ CanStart(c)
    /\ \E p \in BeginRefresh([Idle EXCEPT !.op = "refresh", !.out = "none"],
                             force, "direct") :
           proc' = [proc EXCEPT ![c] = p]
    /\ budget' = Started
    /\ report' = NoReport
    /\ UNCHANGED <<backend, tiebreak, provider, concurrency, storage, oauth, store, nextId, now, issued, faults>>

\* After `await getCurrentToken()`: the expiry decision and, when a refresh is
\* needed, the POST to https://{domain}/oauth/token/.
RefreshLoaded(c) ==
    /\ proc[c].pc = "r1"
    /\ LET p0 == proc[c]
           p == IF p0.op = "refresh" /\ ~p0.force /\ p0.rtoken # NoToken
                THEN [p0 EXCEPT !.first = p0.rtoken, !.firstAt = now,
                                !.classified = IF isExpired(p0.rtoken, now)
                                               THEN "expired" ELSE "valid"]
                ELSE p0
       IN  IF p.rtoken = NoToken
           THEN proc' = [proc EXCEPT ![c] =
                            RefreshThrow(p, Thrown(FALSE, 0, "no_token_for_refresh"))]
           ELSE IF ~(p.force \/ isExpired(p.rtoken, now))
           THEN \E q \in RefreshReturn(p, store, FALSE) :
                    proc' = [proc EXCEPT ![c] = q]
           ELSE proc' = [proc EXCEPT ![c] = [p EXCEPT !.pc = "r2"]]
    /\ UNCHANGED <<backend, tiebreak, provider, concurrency, storage, oauth, report, budget, store, nextId, now, issued, faults>>

\* Variant: the refresh token of the response is stored as it comes.
refreshTokenOfResponse(resp, token) ==
    IF resp.rotate THEN issued + 1 ELSE NULL

\* `newTokenData.refresh_token || token.refresh_token`: the refresh token of
\* the response, or the one the refresh read when the response has none.
refreshTokenAfter(resp, token) ==
    IF resp.rotate THEN issued + 1 ELSE token.refresh_token

\* The token endpoint answers the exchange.  On a grant the patch is built
\* and updateToken(token.id, updatedToken) is called: the SQLite
\* implementation runs its UPDATE, the file one first reads the current record.
TokenEndpointResponse(c) ==
    /\ proc[c].pc = "r2"
    /\ \E resp \in TokenAnswersTo(proc[c].rtoken.refresh_token) :
        LET p0 == proc[c]
            p == [p0 EXCEPT !.exchanges = @ + 1,
                            !.failed = IF resp.kind # "ok" /\ @ = "none"
                                       THEN TokenAnswer(resp) ELSE @,
                            !.failedAt = IF resp.kind # "ok" /\ p0.failed = "none"
                                         THEN Len(p0.requests) ELSE @]
            updates == [access_token |-> issued + 1,
                        refresh_token |-> refreshTokenAfter(resp, p.rtoken),
                        expires_in |-> resp.expires_in,
                        expires_at |-> expiresAtAfter(now, resp.expires_in,
                                                      "number")]
        IN  IF resp.kind = "ok"
            THEN \E w \in (IF backend = "sqlite"
                           THEN WriteOutcomes(backend, Faulty) ELSE {"written"}) :
                 /\ issued' = issued + 1
                 /\ faults' = IF w = "written" THEN faults ELSE faults + 1
                 /\ store' \in IF backend = "sqlite"
                               THEN Written(store,
                                            updateTokenSqlite(store, p.rtoken.id, updates),
                                            w)
                               ELSE {store}
                 /\ \E cur \in getCurrentToken(backend, store) :
                       proc' = [proc EXCEPT ![c] =
                                   [p EXCEPT !.pc = "r3", !.updates = updates,
                                             !.wrote = @ \/ store' # store,
                                             !.rejected = w # "written",
                                             !.cur = IF backend = "file" THEN cur
                                                     ELSE NoToken]]
            ELSE /\ proc' = [proc EXCEPT ![c] =
                        RefreshThrow(p,
                            IF resp.kind = "http"
                            THEN Thrown(TRUE, resp.status, "refresh_failed")
                            ELSE Thrown(FALSE, 0, "refresh_failed"))]
                 /\ faults' = IF CanFail THEN faults + 1 ELSE faults
                 /\ UNCHANGED <<store, issued>>
    /\ UNCHANGED <<backend, tiebreak, provider, concurrency, storage, oauth, report, budget, nextId, now>>

\* updateToken completes.  The file implementation writes the merged record,
\* catches a failure of the write and returns false; the SQLite one resolves
\* or rejects.  refreshTokenIfNeeded does not look at the value: it returns
\* {refreshed: true} unless updateToken rejected, which it rethrows.
UpdateDone(c) ==
    /\ proc[c].pc = "r3"
    /\ LET p == [proc[c] EXCEPT !.cur = NoToken, !.updates = NoUpdates,
                                !.rejected = FALSE]
           target == IF backend = "file"
                     THEN updateTokenFile(store, now, proc[c].cur, proc[c].updates)
                     ELSE store
       IN  IF proc[c].rejected
           THEN /\ proc' = [proc EXCEPT ![c] =
                               RefreshThrow(p, Thrown(FALSE, 0, "update_failed"))]
                /\ UNCHANGED <<store, faults>>
           ELSE \E w \in (IF backend = "file" /\ proc[c].cur # NoToken
                          THEN WriteOutcomes(backend, Faulty) ELSE {"written"}) :
                \E st \in Written(store, target, w) :
                    /\ store' = st
                    /\ faults' = IF w = "written" THEN faults ELSE faults + 1
                    /\ \E q \in RefreshReturn(
                                    [p EXCEPT !.wrote = @ \/ (w = "written" /\ st # store)],
                                    st, TRUE) :
                           proc' = [proc EXCEPT ![c] = q]
    /\ UNCHANGED <<backend, tiebreak, provider, concurrency, storage, oauth, report, budget, nextId, now, issued>>

\* ------------------------------------------------------------ callBitrixAPI
\* Variant: the expiry check of the caller counts the instant of expiry.
needsRefreshAtExpiry(token, t) ==
    token.method = "oauth2" /\ token.expires_at # NULL /\ t >= token.expires_at

\* `token.method === 'oauth2' && token.expires_at` and `now > token.expires_at`:
\* the expiry check of callBitrixAPI and of getAccessToken.
needsRefresh(token, t) ==
    token.method = "oauth2" /\ token.expires_at # NULL /\ t > token.expires_at

\* How the credential travels in a request callBitrixAPI builds itself: for
\* an oauth2 token in Authorization: Bearer {access_token}, for any other
\* one in the body (params.auth = token.access_token).
attachment(token) ==
    IF token.method = "oauth2" THEN "bearer" ELSE "body"

\* callBitrixAPIWithSimplifiedAuth builds
\* https://{domain}/rest/{access_token}/{method}.
webhookUrl == "url"

\* The base of the URL callBitrixAPI posts to: https://{domain}/rest/ for an
\* oauth2 token, `client_endpoint || https://{domain}/rest/` for another.
baseUrl(token) ==
    IF token.method = "oauth2" THEN "rest"
    ELSE IF token.client_endpoint # "none" THEN token.client_endpoint
    ELSE "rest"

Pending == "pending"

\* httpService.post of the API request built from p.token.
SendRequest(p, via) ==
    [p EXCEPT !.pc = "http",
              !.requests = Append(@, [token |-> p.token.access_token,
                                      method |-> p.token.method,
                                      endpoint |-> p.token.client_endpoint,
                                      base |-> IF via = webhookUrl THEN "rest"
                                               ELSE baseUrl(p.token),
                                      via |-> via,
                                      answer |-> Pending])]

\* The top of the while loop: `let token = await getCurrentToken()`.
LoopTop(p, attempt) ==
    {[p EXCEPT !.pc = "a1", !.attempt = attempt, !.token = t] :
        t \in getCurrentToken(backend, store)}

CallStart(c) ==
    /\ CanStart(c)
    /\ \E p \in LoopTop([Idle EXCEPT !.op = "call", !.out = "none"], 1) :
           proc' = [proc EXCEPT ![c] = p]
    /\ budget' = Started
    /\ report' = NoReport
    /\ UNCHANGED <<backend, tiebreak, provider, concurrency, storage, oauth, store, nextId, now, issued, faults>>

\* After the token is loaded: no token throws, a simplified token goes to
\* callBitrixAPIWithSimplifiedAuth, an expired OAuth2 token is refreshed
\* first, anything else is sent.
CallLoaded(c) ==
    /\ proc[c].pc = "a1"
    /\ LET p0 == proc[c]
           p == IF p0.classified = "none" /\ p0.token # NoToken
                THEN [p0 EXCEPT !.first = p0.token, !.firstAt = now,
                                !.classified = IF needsRefresh(p0.token, now)
                                               THEN "expired" ELSE "valid"]
                ELSE p0
       IN  IF p.token = NoToken
           THEN proc' = [proc EXCEPT ![c] = Catch(p, Thrown(FALSE, 0, "no_token"))]
           ELSE IF p.token.method = "simplified_auth"
           THEN proc' = [proc EXCEPT ![c] = SendRequest(p, webhookUrl)]
           ELSE IF needsRefresh(p.token, now)
           THEN \E q \in BeginRefresh(p, FALSE, "pre") :
                    proc' = [proc EXCEPT ![c] = q]
           ELSE proc' = [proc EXCEPT ![c] = SendRequest(p, attachment(p.token))]
    /\ UNCHANGED <<backend, tiebreak, provider, concurrency, storage, oauth, report, budget, store, nextId, now, issued, faults>>

\* After the refresh of an expired token: `token = await getCurrentToken()`.
CallReloaded(c) ==
    /\ proc[c].pc = "a3"
    /\ LET p == proc[c]
       IN  IF p.token = NoToken
           THEN proc' = [proc EXCEPT ![c] =
                            Catch(p, Thrown(FALSE, 0, "failed_to_refresh"))]
           ELSE proc' = [proc EXCEPT ![c] = SendRequest(p, attachment(p.token))]
    /\ UNCHANGED <<backend, tiebreak, provider, concurrency, storage, oauth, report, budget, store, nextId, now, issued, faults>>

\* The provider answers the API request.
ApiResponse(c) ==
    /\ proc[c].pc = "http"
    /\ \E resp \in ApiAnswers :
        LET n == Len(proc[c].requests)
            p == [proc[c] EXCEPT !.requests[n].answer = Answer(resp)]
            q == IF resp.kind = "http"
                 THEN {Catch(p, Thrown(TRUE, resp.status, "http"))}
                 ELSE IF resp.kind = "network"
                 THEN {Catch(p, Thrown(FALSE, 0, "network"))}
                 ELSE IF p.requests[n].via = webhookUrl
                 THEN \* callBitrixAPIWithSimplifiedAuth wraps response.data as it is
                      {[p EXCEPT !.pc = "done", !.out = "success"]}
                 ELSE IF resp.kind = "result"
                 THEN {[p EXCEPT !.pc = "done", !.out = "success"]}
                 ELSE IF isTokenError(resp.error)
                         /\ canRefreshAndRetry(p.attempt, p.token)
                 THEN BeginRefresh(p, TRUE, "forced")
                 ELSE {Catch(p, Thrown(FALSE, 0, "api_error"))}
        IN  /\ faults' = IF resp.kind = "result" THEN faults ELSE faults + 1
            /\ \E r \in q : proc' = [proc EXCEPT ![c] = r]
    /\ UNCHANGED <<backend, tiebreak, provider, concurrency, storage, oauth, report, budget, store, nextId, now, issued>>

\* After the forced refresh: `attempt++; continue`.
CallRetry(c) ==
    /\ proc[c].pc = "a6"
    /\ \E q \in LoopTop(proc[c], proc[c].attempt + 1) :
           proc' = [proc EXCEPT ![c] = q]
    /\ UNCHANGED <<backend, tiebreak, provider, concurrency, storage, oauth, report, budget, store, nextId, now, issued, faults>>

\* After `await this.sleep(retryDelay * attempt)`: `attempt++` and loop.
SleepDone(c) ==
    /\ proc[c].pc = "sleep"
    /\ \E q \in LoopTop(proc[c], proc[c].attempt + 1) :
           proc' = [proc EXCEPT ![c] = q]
    /\ UNCHANGED <<backend, tiebreak, provider, concurrency, storage, oauth, report, budget, store, nextId, now, issued, faults>>

\* ----------------------------------------------------------- getAccessToken
GetAccessTokenStart(c) ==
    /\ CanStart(c)
    /\ \E t \in getCurrentToken(backend, store) :
           proc' = [proc EXCEPT ![c] =
                       [Idle EXCEPT !.op = "getAccessToken", !.pc = "g1",
                                    !.token = t, !.out = "none"]]
    /\ budget' = Started
    /\ report' = NoReport
    /\ UNCHANGED <<backend, tiebreak, provider, concurrency, storage, oauth, store, nextId, now, issued, faults>>

GetAccessTokenLoaded(c) ==
    /\ proc[c].pc = "g1"
    /\ LET p0 == proc[c]
           p == IF p0.token # NoToken
                THEN [p0 EXCEPT !.first = p0.token, !.firstAt = now,
                                !.classified = IF needsRefresh(p0.token, now)
                                               THEN "expired" ELSE "valid"]
                ELSE p0
       IN  IF p.token = NoToken
           THEN proc' = [proc EXCEPT ![c] = [p EXCEPT !.pc = "done", !.out = "null"]]
           ELSE IF needsRefresh(p.token, now)
           THEN \E q \in BeginRefresh(p, FALSE, "gat") :
                    proc' = [proc EXCEPT ![c] = q]
           ELSE proc' = [proc EXCEPT ![c] = [p EXCEPT !.pc = "done", !.out = "token"]]
    /\ UNCHANGED <<backend, tiebreak, provider, concurrency, storage, oauth, report, budget, store, nextId, now, issued, faults>>

\* `return updatedToken ? updatedToken.access_token : null`
GetAccessTokenReloaded(c) ==
    /\ proc[c].pc = "g3"
    /\ proc' = [proc EXCEPT ![c] =
                   [proc[c] EXCEPT !.pc = "done",
                                   !.out = IF proc[c].token = NoToken
                                           THEN "null" ELSE "token"]]
    /\ UNCHANGED <<backend, tiebreak, provider, concurrency, storage, oauth, report, budget, store, nextId, now, issued, faults>>

\* ----------------------------------------------------------- getTokenStatus
\* Variant: the status call goes through refreshTokenIfNeeded first.
GetTokenStatusRefreshing(c) ==
    /\ CanStart(c)
    /\ \E p \in BeginRefresh([Idle EXCEPT !.op = "getTokenStatus",
                                          !.out = "none"], FALSE, "direct") :
           proc' = [proc EXCEPT ![c] = p]
    /\ budget' = Started
    /\ report' = NoReport
    /\ UNCHANGED <<backend, tiebreak, provider, concurrency, storage, oauth, store, nextId, now, issued, faults>>

\* getTokenStatus: its synchronous prefix issues getCurrentToken.
GetTokenStatusStart(c) ==
    /\ CanStart(c)
    /\ \E t \in getCurrentToken(backend, store) :
           proc' = [proc EXCEPT ![c] =
                       [Idle EXCEPT !.op = "getTokenStatus", !.pc = "s1",
                                    !.token = t, !.out = "none"]]
    /\ budget' = Started
    /\ report' = NoReport
    /\ UNCHANGED <<backend, tiebreak, provider, concurrency, storage, oauth, store, nextId, now, issued, faults>>

GetTokenStatusLoaded(c) ==
    /\ proc[c].pc = "s1"
    /\ LET p == proc[c]
       IN  IF p.token = NoToken
           THEN proc' = [proc EXCEPT ![c] = [p EXCEPT !.pc = "done", !.out = "no_token"]]
           ELSE proc' = [proc EXCEPT ![c] =
                            [p EXCEPT !.pc = "done", !.out = "status",
                                      !.first = p.token, !.firstAt = now,
                                      !.classified = IF isExpired(p.token, now)
                                                     THEN "expired" ELSE "valid"]]
    /\ UNCHANGED <<backend, tiebreak, provider, concurrency, storage, oauth, report, budget, store, nextId, now, issued, faults>>

\* The caller takes the result; the slot is free again.
Return(c) ==
    /\ proc[c].pc = "done"
    /\ proc' = [proc EXCEPT ![c] = Idle]
    /\ UNCHANGED <<backend, tiebreak, provider, concurrency, storage, oauth, report, budget, store, nextId, now, issued, faults>>

\* ---------------------------------- Bitrix24OAuth and Bitrix24Service
Others == <<backend, tiebreak, provider, concurrency, budget, store, nextId,
            now, storage, report, proc>>

\* Variant: the legacy webhook is called whenever a REST URL is configured.
fallsBackAlways(success, restUrl) == restUrl

\* createLead calls createLeadLegacy when `!result.success &&
\* config.bitrix24.restUrl`.
fallsBack(success, restUrl) == ~success /\ restUrl

\* makeApiCall returns to its caller: createLead falls back to the legacy
\* webhook or returns in its turn.
Returned(o, success) ==
    LET result == IF success THEN "success" ELSE "failure"
    IN  IF o.op = "createLead" /\ fallsBack(success, o.restUrl)
        THEN [o EXCEPT !.pc = "legacy", !.legacy = @ + 1, !.oauth2 = result]
        ELSE [o EXCEPT !.pc = "idle", !.oauth2 = result, !.ret = result]

\* The provider did not serve a request.
NotServed == faults' = IF CanFail THEN faults + 1 ELSE faults

\* processInstallationAuth: the token pair of an installation event.
processInstallationAuth(refresh_token) ==
    /\ issued < MaxIssued
    /\ issued' = issued + 1
    /\ oauth' = [oauth EXCEPT !.accessToken = issued + 1,
                              !.refreshToken = refresh_token]
    /\ UNCHANGED <<Others, faults>>

\* makeApiCall or createLead is invoked: without an access token
\* makeApiCall throws and its catch block returns the failure, with one it
\* posts the API request.
makeApiCall(op) ==
    /\ oauth.pc = "idle"
    /\ LET o == [oauth EXCEPT !.op = op, !.from = "none", !.requests = 0,
                               !.refreshes = 0, !.legacy = 0, !.created = 0,
                               !.oauth2 = "none", !.ret = "none"]
       IN  oauth' = IF o.accessToken = 0 THEN Returned(o, FALSE)
                    ELSE [o EXCEPT !.pc = "post", !.requests = 1]
    /\ UNCHANGED <<Others, issued, faults>>

\* refreshAccessToken is called from block `from`: without a refresh token
\* it returns success: false at once, with one it posts the exchange.
refreshAccessToken(o, from) ==
    IF o.refreshToken = NULL THEN Returned(o, FALSE)
    ELSE [o EXCEPT !.pc = "refresh", !.from = from]

\* The answer to the API request of the try block.
ApiAnswered(resp) ==
    /\ oauth.pc = "post"
    /\ resp \in ApiAnswers
    /\ IF resp.kind = "result"
       THEN /\ oauth' = Returned([oauth EXCEPT !.created = @ + 1], TRUE)
            /\ UNCHANGED faults
       ELSE /\ NotServed
            /\ oauth' =
                 IF Answer(resp) = "token_error" THEN refreshAccessToken(oauth, "try")
                 ELSE IF resp.kind = "http" /\ resp.status = 401
                 THEN refreshAccessToken(oauth, "catch")
                 ELSE Returned(oauth, FALSE)
    /\ UNCHANGED <<Others, issued>>

\* The answer to the exchange of refreshAccessToken.  Granted, the pair is
\* kept and saved by tokenStore.saveTokens; the try block then calls
\* makeApiCall again, the catch block posts its one retry.
RefreshAnswered(resp) ==
    /\ oauth.pc = "refresh"
    /\ resp \in TokenAnswers
    /\ LET o == [oauth EXCEPT !.refreshes = @ + 1]
       IN  IF resp.kind = "ok"
           THEN /\ issued' = issued + 1
                /\ UNCHANGED faults
                /\ LET refreshToken == IF resp.rotate THEN issued + 1
                                       ELSE o.refreshToken
                   IN  oauth' =
                         [o EXCEPT !.accessToken = issued + 1,
                                   !.refreshToken = refreshToken,
                                   !.saved = <<[accessToken |-> issued + 1,
                                                refreshToken |-> refreshToken,
                                                expiresIn |-> resp.expires_in]>>,
                                   !.pc = IF o.from = "try" THEN "post"
                                          ELSE "retry",
                                   !.requests = @ + 1]
           ELSE /\ NotServed
                /\ oauth' = Returned(o, FALSE)
                /\ UNCHANGED issued
    /\ UNCHANGED Others

\* The answer to the retry of the catch block.
RetryAnswered(resp) ==
    /\ oauth.pc = "retry"
    /\ resp \in ApiAnswers
    /\ IF resp.kind = "result"
       THEN /\ oauth' = Returned([oauth EXCEPT !.created = @ + 1], TRUE)
            /\ UNCHANGED faults
       ELSE /\ NotServed
            /\ oauth' = Returned(oauth, FALSE)
    /\ UNCHANGED <<Others, issued>>

\* createLeadLegacy: the answer of the legacy webhook.
createLeadLegacy(resp) ==
    /\ oauth.pc = "legacy"
    /\ resp \in ApiAnswers
    /\ IF resp.kind = "result"
       THEN /\ oauth' = [oauth EXCEPT !.pc = "idle", !.created = @ + 1,
                                      !.ret = "success"]
            /\ UNCHANGED faults
       ELSE /\ NotServed
            /\ oauth' = [oauth EXCEPT !.pc = "idle", !.ret = "failure"]
    /\ UNCHANGED <<Others, issued>>

\* ------------------------------------------------------------- properties
Calls == {c \in Callers : proc[c].op = "call"}

\* The answers the provider has given to the API requests of a frame.
Answers(p) == {p.requests[i].answer : i \in 1..Len(p.requests)}

\* The frame's call was started on a stored OAuth2 credential.
OnOAuth2(p) == p.classified # "none" /\ p.first.method = "oauth2"

\* C1: a call on a stored, unexpired oauth2 credential whose first API
\* request is answered with a token error and whose second is answered with
\* a result returns success, and refreshTokenIfNeeded(true) has been called
\* exactly once.
C1_Case(p) ==
    /\ OnOAuth2(p) /\ p.classified = "valid"
    /\ Len(p.requests) >= 2
    /\ p.requests[1].answer = "token_error"
    /\ p.requests[2].answer = "result"

C1_RefreshOnceThenSuccess ==
    \A c \in Calls :
        C1_Case(proc[c]) =>
            /\ proc[c].pc = "done" /\ proc[c].out = "success"
            /\ Len(proc[c].requests) = 2
            /\ proc[c].forced = 1

C1_Witness ==
    \E c \in Calls : C1_Case(proc[c]) /\ proc[c].out = "success"

\* C2: a call on an oauth2 credential whose every API request is answered
\* with a token error (every refresh being granted) ends in an error after at most two API requests and
\* at most one forced refresh.
C2_Case(p) ==
    /\ OnOAuth2(p) /\ p.failed = "none"
    /\ p.requests # <<>>
    /\ Answers(p) \subseteq {"token_error", Pending}

C2_NoThirdAttempt ==
    \A c \in Calls :
        C2_Case(proc[c]) =>
            /\ Len(proc[c].requests) <= 2
            /\ proc[c].forced <= 1
            /\ proc[c].pc = "done" => proc[c].out = "error"

\* C3: a call on an expired oauth2 credential whose refresh the provider
\* accepts sends its first API request after exactly one refresh exchange,
\* carrying the newly stored access token, which differs from the one read;
\* a call on a credential whose expires_at lies in the future sends its
\* first API request without any exchange, carrying the stored access token.
C3_FirstRequest(p) == p.pc = "http" /\ Len(p.requests) = 1

C3_ExpiredCase(p) ==
    /\ OnOAuth2(p) /\ p.classified = "expired" /\ p.failed = "none"
    /\ C3_FirstRequest(p)

C3_ValidCase(p) ==
    /\ OnOAuth2(p) /\ p.first.expires_at > p.firstAt
    /\ C3_FirstRequest(p)

C3_RefreshBeforeRequest ==
    \A c \in Calls :
        /\ C3_ExpiredCase(proc[c]) =>
               /\ proc[c].exchanges = 1
               /\ proc[c].requests[1].token # proc[c].first.access_token
               /\ \A t \in getCurrentToken(backend, store) :
                      proc[c].requests[1].token = t.access_token
        /\ C3_ValidCase(proc[c]) =>
               /\ proc[c].exchanges = 0
               /\ proc[c].requests[1].token = proc[c].first.access_token

C3_Witness ==
    \E c \in Calls : C3_ExpiredCase(proc[c]) /\ proc[c].exchanges = 1

\* C4: at most one refresh exchange, from the read of the stored refresh
\* token to the write of the store update, is in progress at any time.
Refreshing == {c \in Callers : proc[c].pc \in {"r2", "r3"}}

C4_OneRefreshAtATime == Cardinality(Refreshing) <= 1

\* C5: when a refresh has succeeded, getCurrentToken returns a record whose
\* access token is the newly issued one and differs from the one the refresh
\* read, whose refresh token is the one the provider answered with (the
\* rotated one when it rotated), and whose expires_at is strictly greater
\* than the expires_at the refresh read.
C5_Succeeds(c) == proc[c].pc = "r3" /\ proc[c].pc' # "r3"

C5_Stored(c, t) ==
    /\ t.access_token = proc[c].updates.access_token
    /\ t.access_token # proc[c].rtoken.access_token
    /\ t.refresh_token = proc[c].updates.refresh_token
    /\ t.expires_at = proc[c].updates.expires_at

C5_StrictlyLaterExpiry ==
    [][\A c \in Callers :
          C5_Succeeds(c) =>
              \A t \in getCurrentToken(backend, store)' :
                  /\ C5_Stored(c, t)
                  /\ t.expires_at > proc[c].rtoken.expires_at]_vars

\* C5 (amended): as above, but the new expires_at is the instant of the
\* exchange plus the granted lifetime; it is strictly greater than the one
\* the refresh read whenever the refresh was not forced, that is, whenever
\* the credential had expired.
C5_Granted(c) == proc[c].pc = "r2" /\ proc[c].pc' = "r3"

C5_LaterExpiryWhenExpired ==
    [][\A c \in Callers :
          /\ C5_Granted(c) =>
                 \E e \in ExpiresIn : proc[c].updates.expires_at' = now + e
          /\ C5_Succeeds(c) =>
                 \A t \in getCurrentToken(backend, store)' :
                     /\ C5_Stored(c, t)
                     /\ ~proc[c].force =>
                            t.expires_at > proc[c].rtoken.expires_at]_vars

C5_Witness ==
    \E c \in Callers :
        /\ proc[c].refreshed /\ proc[c].wrote /\ proc[c].forced = 0
        /\ proc[c].pc \in {"a3", "g3", "done"}

\* C6: a call on an oauth2 credential whose API request is answered with an
\* application error that is not a token error ends at once with the error:
\* one API request, no forced refresh, no retry.
C6_Case(p) ==
    /\ OnOAuth2(p)
    /\ p.requests # <<>>
    /\ p.requests[1].answer = "app_error"

C6_SurfacesImmediately ==
    \A c \in Calls :
        C6_Case(proc[c]) =>
            /\ proc[c].pc = "done" /\ proc[c].out = "error"
            /\ Len(proc[c].requests) = 1
            /\ proc[c].forced = 0

\* C7: a finished call whose every API request met a transient failure
\* (network error, HTTP 5xx or 429) and none of whose refresh exchanges was
\* rejected has made exactly retryAttempts API requests and ended in an
\* error; no call makes more than retryAttempts API requests.
C7_Case(p) ==
    /\ p.pc = "done"
    /\ p.requests # <<>>
    /\ Answers(p) = {"transient"}

C8_Case(p) == p.failed = "rejected"

C8_RefreshNotRepeated ==
    \A c \in Calls :
        C8_Case(proc[c]) =>
            /\ proc[c].pc = "done" /\ proc[c].out = "error"
            /\ proc[c].exchanges = 1
            /\ Len(proc[c].requests) = proc[c].failedAt
            /\ ~proc[c].wrote

\* C9: a call on an empty store sends no API request and no token-endpoint
\* request, writes nothing to the store, and ends with the no-credential
\* error.
C9_Case(c) == c \in Calls /\ store = <<>>

C9_NoCredential ==
    \A c \in Callers :
        C9_Case(c) =>
            /\ proc[c].requests = <<>>
            /\ proc[c].exchanges = 0
            /\ ~proc[c].wrote
            /\ proc[c].pc = "done" =>
                   proc[c].out = "error" /\ proc[c].err = "no_token"

C9_Witness ==
    \E c \in Callers :
        C9_Case(c) /\ proc[c].pc = "done" /\ proc[c].attempt = retryAttempts

\* C10: an expiry decision on a stored oauth2 credential (by callBitrixAPI,
\* refreshTokenIfNeeded(false), getTokenStatus or getAccessToken) is
\* "expired" if and only if now >= expires_at.
C10_ExpiredFromExpiresAt ==
    \A c \in Callers :
        OnOAuth2(proc[c]) =>
            (proc[c].classified = "expired"
                <=> proc[c].firstAt >= proc[c].first.expires_at)

\* C11: a record written by an expiring acquisition or by a successful
\* refresh with the provider's expires_in = N has expires_at = (the clock at
\* that acquisition or exchange) + N, and nothing else changes expires_at.
C11_Written ==
    {i \in 1..Len(store') :
        \A j \in 1..Len(store) :
            store[j].id = store'[i].id =>
                store[j].expires_at # store'[i].expires_at}

C11_ByRefresh(r) ==
    \E c \in Callers :
        \/ /\ proc[c].pc = "r3"
           /\ r.expires_at = proc[c].updates.expires_at
           /\ r.expires_in = proc[c].updates.expires_in
        \/ /\ proc[c].pc = "r2" /\ proc[c].pc' = "r3"
           /\ r.expires_at = proc[c].updates.expires_at'
           /\ r.expires_in = proc[c].updates.expires_in'

C11_ExpiresAtDerived ==
    [][/\ \A c \in Callers :
              proc[c].pc = "r2" /\ proc[c].pc' = "r3" =>
                  proc[c].updates.expires_at'
                      = now + proc[c].updates.expires_in'
       /\ \A i \in C11_Written :
              IF proc' = proc
              THEN store'[i].expires_at # NULL =>
                       store'[i].expires_at = now + store'[i].expires_in
              ELSE C11_ByRefresh(store'[i])]_vars

\* C12: a credential acquired by the simplified path is never classified
\* as expired: getTokenStatus reports it as not expired, and callBitrixAPI
\* and getAccessToken send no refresh exchange for it.
C12_Case(p) ==
    /\ p.op \in {"call", "getAccessToken", "getTokenStatus"}
    /\ p.classified # "none"
    /\ p.first.method = "simplified_auth"

C12_SimplifiedNeverExpired ==
    \A c \in Callers :
        C12_Case(proc[c]) =>
            proc[c].classified = "valid" /\ proc[c].exchanges = 0

\* C13: a simplified-path credential is never refreshed: an invocation of
\* refreshTokenIfNeeded (forced or not) that has read a simplified_auth
\* record never has an exchange in flight at the token endpoint and never
\* has an update of the record pending.
C13_SimplifiedNeverRefreshed ==
    \A c \in Callers :
        proc[c].rtoken.method = "simplified_auth" =>
            proc[c].pc \notin {"r2", "r3"}

\* C14: a refresh on a record whose refresh_token is null fails before any
\* request is sent to the token endpoint: no invocation of
\* refreshTokenIfNeeded that has read such a record has an exchange in
\* flight, has sent one, or has an update of the record pending.
C14_NoExchangeWithoutRefreshToken ==
    \A c \in Callers :
        LET p == proc[c]
        IN  p.rtoken # NoToken /\ p.rtoken.refresh_token = NULL =>
                p.pc \notin {"r2", "r3"}

\* C15: after a successful saveToken, getCurrentToken returns the record
\* just saved (the N-th of N saves), also when saves follow one another
\* within one tick of the clock: every acquisition step leaves a store whose
\* current record carries the access token that step stored.
C15_Saved ==
    /\ proc' = proc /\ issued' = issued + 1
    /\ report'.returned = "hasToken" /\ report'.persisted

C15_CurrentIsLastSaved ==
    [][C15_Saved =>
          \A t \in getCurrentToken(backend, store') :
              t.access_token = issued']_vars

\* C16: the token store never accumulates records: whatever saveToken,
\* updateToken and clearAllTokens calls have been made, getAllTokens holds at
\* most one record.
C16_AtMostOneRecord == Len(store) <= 1

\* C17: once a record exists, the store becomes empty only through an
\* explicit clearAllTokens call: every step that takes the store from
\* holding a record to holding none is a step of the clear, and none of
\* callBitrixAPI, of a refresh or of an acquisition.
C17_Clear ==
    /\ report'.op = "clear"
    /\ proc' = proc /\ issued' = issued /\ now' = now

C17_EmptiedOnlyByClear ==
    [][store # <<>> /\ store' = <<>> => C17_Clear]_vars

\* C18: clearAllTokens is idempotent: no call of it throws, after every
\* call getCurrentToken returns none, and a call that follows another one
\* leaves the (empty) store as it is.
C18_ClearIdempotent ==
    [][C17_Clear =>
          /\ report'.returned \in {"true", "false"}
          /\ getCurrentToken(backend, store') = {NoToken}
          /\ report.op = "clear" => store = <<>> /\ store' = store]_vars

\* A clear found nothing to unlink after a credential had been stored: it
\* is the second clear in a row.
C18_Witness ==
    /\ backend = "file" /\ issued > 0 /\ store = <<>>
    /\ report.op = "clear" /\ report.returned = "false"

\* C19: a refresh never loses the only valid refresh token: when the
\* provider has granted an exchange and rotated the refresh token, the step
\* that ends updateToken leaves a store that holds the new access and
\* refresh tokens.
C19_Rotated(c) ==
    /\ proc[c].pc = "r3" /\ proc'[c].pc # "r3"
    /\ proc[c].updates.refresh_token # proc[c].rtoken.refresh_token

C19_RotatedTokenPersisted ==
    [][\A c \in Callers :
          C19_Rotated(c) =>
              \E i \in 1..Len(store') :
                  /\ store'[i].refresh_token = proc[c].updates.refresh_token
                  /\ store'[i].access_token = proc[c].updates.access_token]_vars

\* C20: a failed write to the token store is always surfaced: an
\* acquisition answers hasToken: true only when its record was persisted,
\* and refreshTokenIfNeeded returns refreshed: true only when the store
\* holds the token of the exchange.
C20_ReturnedRefreshed(c) ==
    /\ proc[c].pc = "r3"
    /\ proc'[c].pc \in {"a3", "a6", "g3"} \/ proc'[c].out = "refreshed"

C20_WriteFailureSurfaced ==
    [][/\ report'.op = "install" /\ report'.returned = "hasToken"
           => report'.persisted
       /\ \A c \in Callers :
              C20_ReturnedRefreshed(c) =>
                  \E i \in 1..Len(store') :
                      store'[i].access_token = proc[c].updates.access_token]_vars

\* C21: saveToken is atomic for its readers: whatever write has failed
\* part-way, getCurrentToken never returns a record that is partly written;
\* what it returns is none or a record with every field set.
C21_Whole(t) ==
    /\ t.id # NoToken.id /\ t.access_token # NoToken.access_token
    /\ t.method # NoToken.method /\ t.created_at # NoToken.created_at

C21_NoPartialRecord ==
    \A t \in getCurrentToken(backend, store) : t = NoToken \/ C21_Whole(t)

\* An acquisition overwrote tokens.json and its write broke off.
C21_Witness ==
    /\ backend = "file" /\ issued >= 2
    /\ report.op = "install" /\ report.outcome = "truncated"

\* C22: when the provider answers the authorization-code exchange with an
\* error member, exchangeCodeForToken reports failure carrying the
\* provider's error, has made exactly one token-endpoint request, saves
\* nothing and leaves the stored record as it was.
C22_Rejected ==
    /\ proc' = proc
    /\ report'.op = "install" /\ report'.via = "code" /\ report'.answer = "error"

C22_RejectedExchangeFails ==
    [][C22_Rejected =>
          /\ report'.returned = "error" /\ report'.error = "rejected"
          /\ report'.exchanges = 1
          /\ ~report'.persisted
          /\ store' = store /\ nextId' = nextId]_vars

\* The exchange was rejected while a credential was stored.
C22_Witness ==
    /\ report.op = "install" /\ report.via = "code" /\ report.answer = "error"
    /\ report.returned = "error" /\ store # <<>>

\* C23: every simplified acquisition, of the raw AUTH_ID payload or of the
\* payload as POST / forwards it, leaves a current record whose access token
\* is the AUTH_ID, whose expires_at is null and whose method is
\* simplified_auth, and sends nothing to the token endpoint.
C23_Case ==
    /\ report.op = "install" /\ report.via \in {"direct", "route"}
    /\ report.persisted

C23_SimplifiedRecord ==
    C23_Case =>
        /\ store # <<>>
        /\ store[Len(store)].access_token = issued
        /\ store[Len(store)].expires_at = NULL
        /\ store[Len(store)].method = "simplified_auth"
        /\ report.exchanges = 0

\* C24: a refresh changes only the tokens and the expiry of the current
\* record: every step of refreshTokenIfNeeded that writes the store leaves
\* the same records with the same id, method and created_at.
C24_RefreshWrites ==
    /\ store' # store
    /\ \E c \in Callers : proc[c].pc \in {"r2", "r3"} /\ proc'[c] # proc[c]

C24_RefreshKeepsIdentity ==
    [][C24_RefreshWrites =>
          /\ Len(store') = Len(store)
          /\ \A i \in 1..Len(store) :
                 /\ store'[i].id = store[i].id
                 /\ store'[i].method = store[i].method
                 /\ store'[i].created_at = store[i].created_at]_vars

\* C25: the credential is attached according to the method of the record
\* on every request, the retry after a refresh included: the token of an
\* oauth2 record travels in the Authorization: Bearer header, that of a
\* simplified_auth record in the URL path.
C25_AttachedByMethod ==
    \A c \in Callers : \A i \in 1..Len(proc[c].requests) :
        LET r == proc[c].requests[i]
        IN  /\ r.method = "oauth2" => r.via = "bearer"
            /\ r.method = "simplified_auth" => r.via = webhookUrl

\* C26: every request for an oauth2 credential is sent to the endpoint
\* stored in the record (client_endpoint), also when it is not
\* https://{domain}/rest/.
C26_SentToStoredEndpoint ==
    \A c \in Callers : \A i \in 1..Len(proc[c].requests) :
        LET r == proc[c].requests[i]
        IN  r.method = "oauth2" => r.base = r.endpoint

\* C27: one invocation of Bitrix24OAuth.makeApiCall posts at most two API
\* requests and at most one refresh exchange, whatever the provider answers.
C27_BoundedAuthRetry ==
    oauth.requests <= 2 /\ oauth.refreshes <= 1

\* C29: createLead calls the legacy webhook only after its OAuth2 call
\* returned a failure and only where a legacy REST URL is configured, never
\* after the OAuth2 call succeeded, and at most once; at most one of its
\* requests is answered with a created lead.
C29_LegacyOnlyAfterFailure ==
    oauth.op = "createLead" =>
        /\ oauth.legacy > 0 => oauth.oauth2 = "failure" /\ oauth.restUrl
        /\ oauth.oauth2 = "success" => oauth.legacy = 0
        /\ oauth.pc = "legacy" => oauth.oauth2 = "failure"
        /\ oauth.legacy <= 1
        /\ oauth.created <= 1

C29_Witness ==
    /\ oauth.op = "createLead" /\ oauth.pc = "idle"
    /\ oauth.oauth2 = "failure" /\ oauth.requests >= 1
    /\ oauth.legacy = 1 /\ oauth.ret = "success"

\* C28: the log entries written while a credential is acquired contain the
\* value of no access or refresh token.
C28_NoTokenLogged ==
    report.op = "install" => report.logged = {}

\* C30: when, of two overlapping callBitrixAPI invocations on the same
\* expired credential, the second one ends the store update of its granted,
\* rotating exchange, the other one having stored a rotated pair already and
\* no installation or clear having come since they started, the store holds
\* the pair the provider issued last.
C30_SecondUpdate(c) ==
    /\ report.op = "none"
    /\ proc[c].op = "call" /\ proc[c].pc = "r3" /\ proc'[c].pc # "r3"
    /\ proc[c].updates.refresh_token = proc[c].updates.access_token
    /\ \A d \in Callers \ {c} :
          /\ proc[d].op = "call" /\ proc[d].refreshed /\ proc[d].wrote
          /\ proc[d].first = proc[c].first
    /\ \E t \in getCurrentToken(backend, store) :
          t.refresh_token = t.access_token /\ t.access_token > 1

C30_LatestPairStored ==
    [][\A c \in Callers :
          C30_SecondUpdate(c) =>
              \E t \in getCurrentToken(backend, store') :
                  t.access_token = issued /\ t.refresh_token = issued]_vars

\* C31: when a refresh writes its update after an acquisition has saved a
\* record other than the one the refresh read, the saved record keeps its
\* access token, refresh token and expires_at.
C31_UpdateAfterAcquisition(c, B) ==
    /\ report.op = "install" /\ report.persisted
    /\ \A d \in Callers \ {c} : ~proc[d].wrote
    /\ \/ backend = "file" /\ proc[c].pc = "r3" /\ proc'[c].pc # "r3"
       \/ backend = "sqlite" /\ proc[c].pc = "r2" /\ proc'[c].pc = "r3"
    /\ B # NoToken
    /\ B.access_token # proc[c].rtoken.access_token

C31_AcquiredRecordUntouched ==
    [][\A c \in Callers : \A B \in getCurrentToken(backend, store) :
          C31_UpdateAfterAcquisition(c, B) =>
              \E i \in 1..Len(store') :
                  /\ store'[i].access_token = B.access_token
                  /\ store'[i].refresh_token = B.refresh_token
                  /\ store'[i].expires_at = B.expires_at]_vars

\* C32: once clearAllTokens has emptied the store, an updateToken that a
\* refresh in flight calls afterwards leaves the store empty: the store stays
\* empty until the next acquisition.
C32_Cleared ==
    /\ report.op = "clear" /\ report.returned = "true"
    /\ store = <<>>
    /\ \A c \in Callers : proc[c].pc = "r3" => proc[c].cur = NoToken

C32_NotRecreated ==
    [][C32_Cleared /\ report' = report => store' = <<>>]_vars

C32_Witness ==
    /\ report.op = "clear" /\ report.returned = "true"
    /\ store = <<>>
    /\ \E c \in Callers :
          /\ proc[c].exchanges >= 1 /\ proc[c].refreshed
          /\ ~proc[c].wrote

\* C33: whatever the provider answers, one callBitrixAPI invocation makes at
\* most retryAttempts API requests and at most retryAttempts - 1 forced
\* refreshes, ends with a success result or a thrown error and never without
\* either, and terminates: while it runs its next step is enabled, and every
\* step it takes moves it up a bounded rank (attempt, then position in the
\* loop body).
C33_Stage(p) ==
    IF p.pc = "a1" THEN 0
    ELSE IF p.pc \in {"r1", "r2", "r3"}
    THEN (IF p.ret = "pre" THEN 0 ELSE 5)
         + (IF p.pc = "r1" THEN 1 ELSE IF p.pc = "r2" THEN 2 ELSE 3)
    ELSE IF p.pc = "a3" THEN 4
    ELSE IF p.pc = "http" THEN 5
    ELSE IF p.pc = "a6" THEN 9
    ELSE 10

C33_Rank(p) ==
    IF p.pc = "done" THEN 11 * (retryAttempts + 1)
    ELSE 11 * p.attempt + C33_Stage(p)

C33_Step(c) ==
    \/ CallLoaded(c) \/ CallReloaded(c) \/ ApiResponse(c) \/ CallRetry(c)
    \/ SleepDone(c) \/ RefreshLoaded(c) \/ TokenEndpointResponse(c)
    \/ UpdateDone(c)

C33_Bounded(p) ==
    /\ Len(p.requests) <= retryAttempts
    /\ p.forced <= retryAttempts - 1
    /\ p.attempt \in 1..retryAttempts
    /\ p.pc = "done" <=> p.out \in {"success", "error"}
    /\ p.pc # "done" => p.out = "none"

C33_CallTerminates ==
    /\ [](\A c \in Calls :
             /\ C33_Bounded(proc[c])
             /\ proc[c].pc # "done" => ENABLED C33_Step(c))
    /\ [][\A c \in Callers :
             proc[c].op = "call" /\ proc'[c].op = "call"
             /\ proc'[c] # proc[c] =>
                 C33_Rank(proc'[c]) > C33_Rank(proc[c])]_vars

C33_Witness ==
    \E c \in Calls :
        /\ proc[c].pc = "done" /\ proc[c].out = "error"
        /\ Len(proc[c].requests) = retryAttempts
        /\ proc[c].forced = retryAttempts - 1

\* C34: a finished call has made one forced refresh for every token error
\* the provider reported on a request for an oauth2 credential, in a 2xx
\* body or as HTTP 401.
C34_TokenErrors(p) ==
    {i \in 1..Len(p.requests) :
        /\ p.requests[i].method = "oauth2"
        /\ p.requests[i].answer \in {"token_error", "http_4xx"}}

C34_TokenErrorRefreshed ==
    \A c \in Calls :
        proc[c].pc = "done" =>
            proc[c].forced = Cardinality(C34_TokenErrors(proc[c]))

\* C35: a call that ended with a success result was answered, on its last
\* API request, with a response that carries no error field.
C35_SuccessWithoutError ==
    \A c \in Calls :
        proc[c].pc = "done" /\ proc[c].out = "success" =>
            /\ proc[c].requests # <<>>
            /\ proc[c].requests[Len(proc[c].requests)].answer = "result"

\* C36: the record getCurrentToken returns has the expires_at its record
\* was saved with: null for a record saved with null, the same instant for
\* a record saved with a timestamp.
C36_ExpiresAtRoundTrip ==
    \A t \in getCurrentToken(backend, store) :
        t # NoToken =>
            \E i \in 1..Len(store) :
                /\ store[i].id = t.id
                /\ store[i].expires_at = t.expires_at

\* C37: when the provider granted a refresh without a new refresh token, the
\* step that ends updateToken leaves a current record with the refresh
\* token the refresh read and with the access token and expires_at of the
\* exchange; after any granted refresh the stored refresh token is not null.
C37_Granted(c) ==
    /\ proc[c].pc = "r3" /\ proc'[c].pc # "r3"
    /\ ~proc[c].rejected

C37_RefreshTokenKept ==
    [][\A c \in Callers :
          C37_Granted(c) =>
              \A t \in getCurrentToken(backend, store') :
                  /\ t.refresh_token # NULL
                  /\ proc[c].updates.refresh_token # proc[c].updates.access_token =>
                         /\ t.refresh_token = proc[c].rtoken.refresh_token
                         /\ t.access_token = proc[c].updates.access_token
                         /\ t.expires_at = proc[c].updates.expires_at]_vars

C37_Witness ==
    \E c \in Callers :
        /\ proc[c].refreshed /\ proc[c].wrote
        /\ \E t \in getCurrentToken(backend, store) :
              /\ t.method = "oauth2" /\ t.access_token = issued
              /\ t.refresh_token \notin {NULL, issued}

\* C38: no step of a getTokenStatus invocation sends a request to the
\* provider, starts a refresh or changes the Token Store, whatever the
\* stored credential, an expired one included.
C38_ReadOnly ==
    [][\A c \in Callers :
          proc'[c].op = "getTokenStatus" /\ proc'[c] # proc[c] =>
              /\ store' = store /\ nextId' = nextId
              /\ issued' = issued /\ faults' = faults
              /\ proc'[c].pc \in {"s1", "done"}
              /\ proc'[c].requests = <<>>
              /\ proc'[c].exchanges = 0 /\ proc'[c].forced = 0
              /\ ~proc'[c].wrote /\ ~proc'[c].refreshed]_vars

C38_Witness ==
    \E c \in Callers :
        /\ proc[c].op = "getTokenStatus" /\ proc[c].pc = "done"
        /\ proc[c].out = "status" /\ proc[c].classified = "expired"
        /\ proc[c].first.method = "oauth2"
        /\ proc[c].first.refresh_token # NULL

\* --------------------------------------------------------- specifications
Next ==
    \/ Tick
    \/ \E rt \in RefreshTokens, e \in ExpiresIn, enc \in Encodings :
           processONAPPINSTALLEvent(rt, e, enc)
    \/ \E rt \in RefreshTokens, e \in ExpiresIn, enc \in Encodings :
           processOAuth2Flow(rt, e, enc)
    \/ \E resp \in CodeAnswers : exchangeCodeForToken(resp)
    \/ \E rt \in RefreshTokens : processDirectInstallationData(rt)
    \/ \E e \in ExpiresIn : postInstallDirectAuth(e)
    \/ ClearTokens
    \/ \E c \in Callers : CallStart(c)
    \/ \E c \in Callers : CallLoaded(c)
    \/ \E c \in Callers : CallReloaded(c)
    \/ \E c \in Callers : ApiResponse(c)
    \/ \E c \in Callers : CallRetry(c)
    \/ \E c \in Callers : SleepDone(c)
    \/ \E c \in Callers, force \in BOOLEAN : RefreshStart(c, force)
    \/ \E c \in Callers : RefreshLoaded(c)
    \/ \E c \in Callers : TokenEndpointResponse(c)
    \/ \E c \in Callers : UpdateDone(c)
    \/ \E c \in Callers : GetAccessTokenStart(c)
    \/ \E c \in Callers : GetAccessTokenLoaded(c)
    \/ \E c \in Callers : GetAccessTokenReloaded(c)
    \/ \E c \in Callers : GetTokenStatusStart(c)
    \/ \E c \in Callers : GetTokenStatusLoaded(c)
    \/ \E c \in Callers : Return(c)

Spec == Init /\ [][Next]_vars

SpecStore == InitStore /\ [][Next]_vars

SpecConc == InitConc /\ [][Next]_vars

SpecFault == InitFault /\ [][Next]_vars

NextService ==
    \/ \E rt \in RefreshTokens : processInstallationAuth(rt)
    \/ \E op \in {"makeApiCall", "createLead"} : makeApiCall(op)
    \/ \E resp \in ApiResponses : ApiAnswered(resp)
    \/ \E resp \in TokenFailures \cup TokenGrants : RefreshAnswered(resp)
    \/ \E resp \in ApiResponses : RetryAnswered(resp)
    \/ \E resp \in ApiResponses : createLeadLegacy(resp)

SpecService == InitService /\ [][NextService]_vars

====
